---------------------------- MODULE Spec2Model ----------------------------
(***************************************************************************)
(* Model of src/escape_model.py: the EscapeBehaviorModel pipeline          *)
(*   M = a*D + B*K,  E = |M - Z|,  gamma = f(E, input_gamma),              *)
(*   G = (1 - gamma)*M + gamma*Z.                                          *)
(*                                                                         *)
(* Python's float is IEEE-754 binary64.  Every arithmetic step of the      *)
(* source is modelled as the exact operation followed by rounding to       *)
(* nearest, ties to even, on a 53-bit significand, so that the values of   *)
(* the model are the values the interpreter computes.  Exponent overflow   *)
(* and underflow, NaN and signed zero are not modelled: the magnitudes the *)
(* pipeline handles here stay far inside the normal range.                 *)
(***************************************************************************)
EXTENDS Integers, Sequences, FiniteSets, TLC

(***************************************************************************)
(* Natural numbers of arbitrary size: little-endian sequences of limbs in  *)
(* base 2^LimbBits, without leading (high) zero limbs; <<>> is zero.       *)
(***************************************************************************)
LimbBits == 15
Base == 2 ^ LimbBits

RECURSIVE Trim(_)
Trim(s) ==
    IF s = <<>> THEN s
    ELSE IF s[Len(s)] = 0 THEN Trim(SubSeq(s, 1, Len(s) - 1)) ELSE s

RECURSIVE FromInt(_)
FromInt(n) == IF n = 0 THEN <<>> ELSE <<n % Base>> \o FromInt(n \div Base)

RECURSIVE AddC(_, _, _)
AddC(x, y, c) ==
    IF x = <<>> /\ y = <<>> THEN (IF c = 0 THEN <<>> ELSE <<c>>)
    ELSE LET xl == IF x = <<>> THEN 0 ELSE Head(x)
             yl == IF y = <<>> THEN 0 ELSE Head(y)
             s  == xl + yl + c
         IN  <<s % Base>> \o AddC(IF x = <<>> THEN x ELSE Tail(x),
                                  IF y = <<>> THEN y ELSE Tail(y),
                                  s \div Base)

AddBig(x, y) == AddC(x, y, 0)

\* x - y - c for x >= y + c
RECURSIVE SubC(_, _, _)
SubC(x, y, c) ==
    IF x = <<>> THEN <<>>
    ELSE LET yl == IF y = <<>> THEN 0 ELSE Head(y)
             d  == Head(x) - yl - c
         IN  <<d % Base>> \o SubC(Tail(x),
                                  IF y = <<>> THEN y ELSE Tail(y),
                                  IF d < 0 THEN 1 ELSE 0)

SubBig(x, y) == Trim(SubC(x, y, 0))

\* -1, 0, 1 as x < y, x = y, x > y
RECURSIVE CmpFrom(_, _, _)
CmpFrom(x, y, i) ==
    IF i = 0 THEN 0
    ELSE IF x[i] < y[i] THEN -1
    ELSE IF x[i] > y[i] THEN 1
    ELSE CmpFrom(x, y, i - 1)

CmpBig(x, y) ==
    IF Len(x) < Len(y) THEN -1
    ELSE IF Len(x) > Len(y) THEN 1
    ELSE CmpFrom(x, y, Len(x))

\* x * k + c for 0 <= k, c < Base
RECURSIVE MulSmallC(_, _, _)
MulSmallC(x, k, c) ==
    IF x = <<>> THEN (IF c = 0 THEN <<>> ELSE <<c>>)
    ELSE LET p == Head(x) * k + c
         IN  <<p % Base>> \o MulSmallC(Tail(x), k, p \div Base)

MulSmall(x, k) == Trim(MulSmallC(x, k, 0))

RECURSIVE MulBig(_, _)
MulBig(x, y) ==
    IF x = <<>> \/ y = <<>> THEN <<>>
    ELSE AddBig(MulSmall(x, Head(y)), Trim(<<0>> \o MulBig(x, Tail(y))))

\* floor(x / k) and whether the division is exact, for 0 < k < Base
RECURSIVE DivSmallR(_, _, _, _)
DivSmallR(x, k, i, r) ==
    IF i = 0 THEN [q |-> <<>>, r |-> r]
    ELSE LET cur  == r * Base + x[i]
             rest == DivSmallR(x, k, i - 1, cur % k)
         IN  [q |-> rest.q \o <<cur \div k>>, r |-> rest.r]

DivSmall(x, k) ==
    LET d == DivSmallR(x, k, Len(x), 0) IN [q |-> Trim(d.q), r |-> d.r]

RECURSIVE BitLenInt(_)
BitLenInt(n) == IF n = 0 THEN 0 ELSE 1 + BitLenInt(n \div 2)

BitLen(x) ==
    IF x = <<>> THEN 0 ELSE (Len(x) - 1) * LimbBits + BitLenInt(x[Len(x)])

Zeros(n) == [i \in 1..n |-> 0]

ShiftL(x, n) ==
    IF x = <<>> THEN x
    ELSE Zeros(n \div LimbBits) \o MulSmall(x, 2 ^ (n % LimbBits))

ShiftR(x, n) ==
    LET q == n \div LimbBits IN
    IF q >= Len(x) THEN <<>>
    ELSE DivSmall(SubSeq(x, q + 1, Len(x)), 2 ^ (n % LimbBits)).q

\* bit i of x, bit 0 the lowest
TestBit(x, i) ==
    LET q == i \div LimbBits IN
    IF q >= Len(x) THEN FALSE
    ELSE (x[q + 1] \div (2 ^ (i % LimbBits))) % 2 = 1

\* x mod 2^n = 0
LowBitsZero(x, n) ==
    LET q == n \div LimbBits IN
    /\ \A i \in 1..q : i > Len(x) \/ x[i] = 0
    /\ q >= Len(x) \/ x[q + 1] % (2 ^ (n % LimbBits)) = 0

(***************************************************************************)
(* binary64 values: neg, m, e stand for (+/-) m * 2^e, with m either zero  *)
(* (and then e = 0, neg = FALSE) or of exactly Precision bits, so that     *)
(* equal numbers are equal records.                                        *)
(***************************************************************************)
Precision == 53

Zero == [neg |-> FALSE, m |-> <<>>, e |-> 0]

\* the float nearest to (+/-) m * 2^e, ties to even
RoundNearestEven(neg, m, e) ==
    IF m = <<>> THEN Zero
    ELSE LET L == BitLen(m) IN
         IF L <= Precision
         THEN [neg |-> neg, m |-> ShiftL(m, Precision - L), e |-> e - (Precision - L)]
         ELSE LET s  == L - Precision
                  q  == ShiftR(m, s)
                  up == TestBit(m, s - 1) /\ (~LowBitsZero(m, s - 1) \/ TestBit(q, 0))
                  q2 == IF up THEN AddBig(q, <<1>>) ELSE q
              IN  IF BitLen(q2) > Precision
                  THEN [neg |-> neg, m |-> ShiftR(q2, 1), e |-> e + s + 1]
                  ELSE [neg |-> neg, m |-> q2, e |-> e + s]

\* the exact sum of two floats as sign, magnitude and exponent
ExactSum(x, y) ==
    IF x.m = <<>> THEN y
    ELSE IF y.m = <<>> THEN x
    ELSE LET e  == IF x.e < y.e THEN x.e ELSE y.e
             xm == ShiftL(x.m, x.e - e)
             ym == ShiftL(y.m, y.e - e)
             c  == CmpBig(xm, ym)
         IN  IF x.neg = y.neg THEN [neg |-> x.neg, m |-> AddBig(xm, ym), e |-> e]
             ELSE IF c = 0 THEN Zero
             ELSE IF c > 0 THEN [neg |-> x.neg, m |-> SubBig(xm, ym), e |-> e]
             ELSE [neg |-> y.neg, m |-> SubBig(ym, xm), e |-> e]

FNeg(x) == IF x.m = <<>> THEN x ELSE [x EXCEPT !.neg = ~x.neg]

\* -1, 0, 1 as x < y, x = y, x > y
FCmp(x, y) ==
    LET d == ExactSum(x, FNeg(y)) IN
    IF d.m = <<>> THEN 0 ELSE IF d.neg THEN -1 ELSE 1

FLe(x, y) == FCmp(x, y) <= 0
FLt(x, y) == FCmp(x, y) < 0

\* x + y, x - y, x * y and abs(x) of Python floats
FAdd(x, y) == LET s == ExactSum(x, y) IN RoundNearestEven(s.neg, s.m, s.e)
FSub(x, y) == FAdd(x, FNeg(y))
FMul(x, y) ==
    IF x.m = <<>> \/ y.m = <<>> THEN Zero
    ELSE RoundNearestEven(x.neg # y.neg, MulBig(x.m, y.m), x.e + y.e)
FAbs(x) == [x EXCEPT !.neg = FALSE]

\* Python's max(x, y) and min(x, y): the first argument unless the second
\* is strictly greater (smaller)
PyMax(x, y) == IF FLt(x, y) THEN y ELSE x
PyMin(x, y) == IF FLt(y, x) THEN y ELSE x

\* the float n * 2^e, for an integer n
Dyadic(n, e) == RoundNearestEven(n < 0, FromInt(IF n < 0 THEN -n ELSE n), e)

\* floor(x / 10^k) and whether anything was cut off
RECURSIVE DivPow10(_, _)
DivPow10(x, k) ==
    IF k = 0 THEN [q |-> x, cut |-> FALSE]
    ELSE LET d    == DivSmall(x, 10)
             rest == DivPow10(d.q, k - 1)
         IN  [q |-> rest.q, cut |-> rest.cut \/ d.r # 0]

\* the float a decimal literal n * 10^-k denotes (correctly rounded)
Dec(n, k) ==
    LET s  == 64 + 4 * k
        d  == DivPow10(ShiftL(FromInt(IF n < 0 THEN -n ELSE n), s), k)
        m2 == AddBig(ShiftL(d.q, 1), IF d.cut THEN <<1>> ELSE <<>>)
    IN  RoundNearestEven(n < 0, m2, -(s + 1))

\* the float nearest to n / d: Python's n / d for small integers, 0 < d < Base
Ratio(n, d) ==
    LET q  == DivSmall(ShiftL(FromInt(IF n < 0 THEN -n ELSE n), 80), d)
        m2 == AddBig(ShiftL(q.q, 1), IF q.r # 0 THEN <<1>> ELSE <<>>)
    IN  RoundNearestEven(n < 0, m2, -81)

(***************************************************************************)
(* The source, operation by operation.  A call returns [err, val]: err is  *)
(* the exception raised ("none" when the call returns) and val is <<v>>    *)
(* for a returned value v, <<>> when the call raised.                      *)
(***************************************************************************)
NoError == "none"
ValueRangeError == "ValueRangeError"   \* class ValueRangeError(ValueError)
ValueError == "ValueError"             \* the plain ValueError of __init__

Return(v) == [err |-> NoError, val |-> <<v>>]
Raise(e) == [err |-> e, val |-> <<>>]

F0 == Zero
F1 == Dec(1, 0)
Half == Dec(5, 1)
Tolerance == Dec(1, 9)

\* a value that the bug of checking only the upper end would let through
InUnit_upper_only(value) == FLe(value, F1)

\* _validate_unit_interval(value, name) returns (does not raise):
\* 0.0 <= value <= 1.0
InUnit(value) == FLe(F0, value) /\ FLe(value, F1)

\* max(0.0, min(1.0, v))
Clamp(v) == PyMax(F0, PyMin(F1, v))

\* __init__ without the check of a + B
init_no_sum_check(a, B) ==
    IF ~InUnit(a) THEN Raise(ValueRangeError)
    ELSE IF ~InUnit(B) THEN Raise(ValueRangeError)
    ELSE Return([a |-> a, B |-> B])

\* EscapeBehaviorModel(a, B): the object, or the exception
init(a, B) ==
    IF ~InUnit(a) THEN Raise(ValueRangeError)
    ELSE IF ~InUnit(B) THEN Raise(ValueRangeError)
    ELSE IF FLt(Tolerance, FAbs(FSub(FAdd(a, B), F1))) THEN Raise(ValueError)
    ELSE Return([a |-> a, B |-> B])

\* self.a * D + self.B * K, before the clamp
FuseRaw(self, D, K) == FAdd(FMul(self.a, D), FMul(self.B, K))

\* fuse without the clamp of its result
fuse_no_clamp(self, D, K) ==
    IF ~InUnit(D) THEN Raise(ValueRangeError)
    ELSE IF ~InUnit(K) THEN Raise(ValueRangeError)
    ELSE Return(FuseRaw(self, D, K))

\* fuse with the two weights exchanged: M = a*K + B*D
fuse_swapped(self, D, K) ==
    IF ~InUnit(D) THEN Raise(ValueRangeError)
    ELSE IF ~InUnit(K) THEN Raise(ValueRangeError)
    ELSE Return(Clamp(FAdd(FMul(self.a, K), FMul(self.B, D))))

\* fuse with the second term subtracted: M = a*D - B*K
fuse_difference(self, D, K) ==
    IF ~InUnit(D) THEN Raise(ValueRangeError)
    ELSE IF ~InUnit(K) THEN Raise(ValueRangeError)
    ELSE Return(Clamp(FSub(FMul(self.a, D), FMul(self.B, K))))

fuse(self, D, K) ==
    IF ~InUnit(D) THEN Raise(ValueRangeError)
    ELSE IF ~InUnit(K) THEN Raise(ValueRangeError)
    ELSE Return(Clamp(FuseRaw(self, D, K)))

deviation(M, Z) ==
    IF ~InUnit(M) THEN Raise(ValueRangeError)
    ELSE IF ~InUnit(Z) THEN Raise(ValueRangeError)
    ELSE Return(FAbs(FSub(M, Z)))

\* dynamic_gamma built on E itself instead of 1 - E
dynamic_gamma_rising(E, input_gamma) ==
    IF ~InUnit(E) THEN Raise(ValueRangeError)
    ELSE IF input_gamma = <<>> THEN Return(Clamp(E))
    ELSE IF ~InUnit(input_gamma[1]) THEN Raise(ValueRangeError)
    ELSE Return(Clamp(FAdd(FMul(Half, input_gamma[1]), FMul(Half, E))))

\* dynamic_gamma that checks input_gamma and then leaves it out
dynamic_gamma_ignores_input(E, input_gamma) ==
    IF ~InUnit(E) THEN Raise(ValueRangeError)
    ELSE IF input_gamma # <<>> /\ ~InUnit(input_gamma[1]) THEN Raise(ValueRangeError)
    ELSE Return(Clamp(FSub(F1, E)))

\* input_gamma is <<>> for None, <<g>> for a float g
dynamic_gamma(E, input_gamma) ==
    IF ~InUnit(E) THEN Raise(ValueRangeError)
    ELSE LET close_to_zero == FSub(F1, E) IN
         IF input_gamma = <<>> THEN Return(Clamp(close_to_zero))
         ELSE IF ~InUnit(input_gamma[1]) THEN Raise(ValueRangeError)
         ELSE Return(Clamp(FAdd(FMul(Half, input_gamma[1]),
                                FMul(Half, close_to_zero))))

\* calibrate with the two weights exchanged: G = gamma*M + (1 - gamma)*Z
calibrate_swapped(M, Z, gamma) ==
    IF ~InUnit(M) THEN Raise(ValueRangeError)
    ELSE IF ~InUnit(Z) THEN Raise(ValueRangeError)
    ELSE IF ~InUnit(gamma) THEN Raise(ValueRangeError)
    ELSE Return(Clamp(FAdd(FMul(gamma, M), FMul(FSub(F1, gamma), Z))))

calibrate(M, Z, gamma) ==
    IF ~InUnit(M) THEN Raise(ValueRangeError)
    ELSE IF ~InUnit(Z) THEN Raise(ValueRangeError)
    ELSE IF ~InUnit(gamma) THEN Raise(ValueRangeError)
    ELSE Return(Clamp(FAdd(FMul(FSub(F1, gamma), M), FMul(gamma, Z))))

ModelResult(D, K, Z, a, B, M, E, gamma, G) ==
    [D |-> D, K |-> K, Z |-> Z, a |-> a, B |-> B,
     M |-> M, E |-> E, gamma |-> gamma, G |-> G]

\* run, from the last statement back: each step is given the values of the
\* steps before it, and an exception of a step is the outcome of run
run_calibrated(self, D, K, Z, M, E, used_gamma, G) ==
    IF G.err # NoError THEN G
    ELSE Return(ModelResult(D, K, Z, self.a, self.B, M, E, used_gamma, G.val[1]))

\* G = self.calibrate(M, Z, used_gamma)
run_gamma(self, D, K, Z, M, E, used_gamma) ==
    IF used_gamma.err # NoError THEN used_gamma
    ELSE run_calibrated(self, D, K, Z, M, E, used_gamma.val[1],
                        calibrate(M, Z, used_gamma.val[1]))

\* used_gamma = self.dynamic_gamma(E, gamma)
run_deviation(self, D, K, Z, gamma, M, E) ==
    IF E.err # NoError THEN E
    ELSE run_gamma(self, D, K, Z, M, E.val[1], dynamic_gamma(E.val[1], gamma))

\* E = self.deviation(M, Z)
run_fused(self, D, K, Z, gamma, M) ==
    IF M.err # NoError THEN M
    ELSE run_deviation(self, D, K, Z, gamma, M.val[1], deviation(M.val[1], Z))

\* self._validate_unit_interval(Z, "Z"); M = self.fuse(D, K)
run(self, D, K, Z, gamma) ==
    IF ~InUnit(Z) THEN Raise(ValueRangeError)
    ELSE run_fused(self, D, K, Z, gamma, fuse(self, D, K))

(***************************************************************************)
(* State: a caller constructs one model from ctor_args and then makes the  *)
(* calls of todo in order; done holds each finished call with its outcome. *)
(***************************************************************************)
VARIABLES
    ctor_args,  \* the (a, B) given to EscapeBehaviorModel
    ctor,       \* "pending", or the outcome of the construction
    model,      \* <<>>, or <<self>> with self.a and self.B
    todo,       \* the calls still to make: [op, args]
    done        \* the calls made: [op, args, err, val]

vars == <<ctor_args, ctor, model, todo, done>>

Call(op, args) == [op |-> op, args |-> args]
Finished(c, r) == [op |-> c.op, args |-> c.args, err |-> r.err, val |-> r.val]

Construct ==
    /\ ctor = "pending"
    /\ LET r == init(ctor_args[1], ctor_args[2]) IN
       /\ ctor' = r.err
       /\ model' = r.val
    /\ UNCHANGED <<ctor_args, todo, done>>

\* the next call returns or raises r; the object is not written
Finish(r) ==
    /\ done' = Append(done, Finished(Head(todo), r))
    /\ todo' = Tail(todo)
    /\ UNCHANGED <<ctor_args, ctor, model>>

Next1(op) == todo # <<>> /\ Head(todo).op = op

\* fuse keeping its result in self.a
Fuse_writes_weight ==
    /\ model # <<>> /\ Next1("fuse")
    /\ LET c == Head(todo)
           r == fuse(model[1], c.args[1], c.args[2])
       IN  /\ done' = Append(done, Finished(c, r))
           /\ todo' = Tail(todo)
           /\ model' = IF r.err = NoError
                       THEN <<[model[1] EXCEPT !.a = r.val[1]]>>
                       ELSE model
    /\ UNCHANGED <<ctor_args, ctor>>

Fuse ==
    /\ model # <<>> /\ Next1("fuse")
    /\ LET c == Head(todo) IN Finish(fuse(model[1], c.args[1], c.args[2]))

Deviation ==
    /\ ctor # "pending" /\ Next1("deviation")
    /\ LET c == Head(todo) IN Finish(deviation(c.args[1], c.args[2]))

DynamicGamma ==
    /\ ctor # "pending" /\ Next1("dynamic_gamma")
    /\ LET c == Head(todo) IN Finish(dynamic_gamma(c.args[1], c.args[2]))

Calibrate ==
    /\ ctor # "pending" /\ Next1("calibrate")
    /\ LET c == Head(todo) IN Finish(calibrate(c.args[1], c.args[2], c.args[3]))

Run ==
    /\ model # <<>> /\ Next1("run")
    /\ LET c == Head(todo) IN
       Finish(run(model[1], c.args[1], c.args[2], c.args[3], c.args[4]))

(***************************************************************************)
(* Inputs.                                                                 *)
(***************************************************************************)
GridSteps == 5

\* k / GridSteps from one step below 0 to one step above 1
Grid == {Ratio(k, GridSteps) : k \in -1 .. GridSteps + 1}

Opt(S) == {<<>>} \cup {<<v>> : v \in S}

\* (a, B): the defaults, equal weights, all weight on D, a pair off 1 inside
\* the tolerance (0.5, 0.5 + 2^-31), pairs off 1 beyond it, pairs out of range
Weights ==
    { <<Dec(7, 1), Dec(3, 1)>>, <<Dec(5, 1), Dec(5, 1)>>,
      <<Dec(1, 0), Dec(0, 0)>>,
      <<Dec(5, 1), Dyadic(2 ^ 30 + 1, -31)>>,
      <<Dec(7, 1), Dec(5, 1)>>, <<Dec(3, 1), Dec(3, 1)>>,
      <<Dec(15, 1), Dec(-5, 1)>>, <<Dec(7, 1), Dec(15, 1)>>,
      <<Dec(-1, 1), Dec(5, 1)>> }

\* the two calls of the source's __main__ and one with M = Z
ExampleRuns ==
    { Call("run", <<Dec(9, 1), Dec(2, 1), Dec(8, 1), <<>>>>),
      Call("run", <<Dec(9, 1), Dec(2, 1), Dec(8, 1), <<Dec(4, 1)>>>>),
      Call("run", <<Dec(9, 1), Dec(2, 1), Dec(9, 1), <<Dec(4, 1)>>>>) }

RunCalls ==
    {Call("run", <<D, K, Z, g>>) : D \in Grid, K \in Grid, Z \in Grid, g \in Opt(Grid)}
        \cup ExampleRuns

InitWith(W, T) ==
    /\ ctor_args \in W
    /\ ctor = "pending"
    /\ model = <<>>
    /\ todo \in T
    /\ done = <<>>

Init == InitWith(Weights, {<<c>> : c \in RunCalls})

Next == Construct \/ Run

Spec == Init /\ [][Next]_vars

\* construction alone, from every pair of grid values as well
InitCtor == InitWith(Weights \cup (Grid \X Grid), {<<>>})

NextCtor == Construct

SpecCtor == InitCtor /\ [][NextCtor]_vars

\* weights a model is constructed from
ValidWeights == {w \in Weights : init(w[1], w[2]).err = NoError}

\* deviations: the grid, the E of the source's example, and values within
\* one rounding step of 0 and of 1
Deviations ==
    Grid \cup {Dec(11, 2), Dyadic(1, -60), FSub(F1, Dyadic(1, -53))}

\* scores: the grid and the M and Z of the source's example
Scores == Grid \cup {Dec(69, 2), Dec(9, 1)}

\* two calls of dynamic_gamma with the same input_gamma
InitGamma ==
    InitWith({<<Dec(7, 1), Dec(3, 1)>>},
             {<<Call("dynamic_gamma", <<E1, g>>), Call("dynamic_gamma", <<E2, g>>)>> :
                  E1 \in Deviations, E2 \in Deviations, g \in Opt(Grid)})

NextGamma == Construct \/ DynamicGamma

SpecGamma == InitGamma /\ [][NextGamma]_vars

\* one call of calibrate
InitCal ==
    InitWith({<<Dec(7, 1), Dec(3, 1)>>},
             {<<Call("calibrate", <<M, Z, g>>)>> :
                  M \in Scores, Z \in Scores, g \in Grid})

NextCal == Construct \/ Calibrate

SpecCal == InitCal /\ [][NextCal]_vars

\* two calls of fuse, the second with D and K no smaller than the first
InitFuse ==
    InitWith(ValidWeights \cup {<<Dec(7, 1), Dec(5, 1)>>},
             {<<Call("fuse", <<p[1], p[2]>>), Call("fuse", <<p[3], p[4]>>)>> :
                  p \in {q \in Grid \X Grid \X Grid \X Grid :
                             FLe(q[1], q[3]) /\ FLe(q[2], q[4])}})

NextFuse == Construct \/ Fuse

SpecFuse == InitFuse /\ [][NextFuse]_vars

\* any sequence of at most MaxCalls calls, each returning or raising
MaxCalls == 3

SeqCalls ==
    { Call("run", <<Dec(9, 1), Dec(2, 1), Dec(8, 1), <<Dec(4, 1)>>>>),
      Call("run", <<Dec(9, 1), Dec(2, 1), Dec(15, 1), <<>>>>),
      Call("fuse", <<Dec(9, 1), Dec(2, 1)>>),
      Call("fuse", <<Dec(-1, 1), Dec(2, 1)>>),
      Call("deviation", <<Dec(69, 2), Dec(8, 1)>>),
      Call("dynamic_gamma", <<Dec(11, 2), <<Dec(15, 1)>>>>),
      Call("calibrate", <<Dec(69, 2), Dec(8, 1), Dec(89, 2)>>) }

RECURSIVE Scripts(_)
Scripts(n) ==
    IF n = 0 THEN {<<>>}
    ELSE LET shorter == Scripts(n - 1) IN
         shorter \cup {Append(t, c) : t \in {u \in shorter : Len(u) = n - 1},
                                      c \in SeqCalls}

InitSeq ==
    InitWith({<<Dec(7, 1), Dec(3, 1)>>, <<Dec(5, 1), Dyadic(2 ^ 30 + 1, -31)>>,
              <<Dec(7, 1), Dec(5, 1)>>, <<Dec(15, 1), Dec(-5, 1)>>},
             Scripts(MaxCalls))

NextSeq == Construct \/ Fuse \/ Deviation \/ DynamicGamma \/ Calibrate \/ Run

SpecSeq == InitSeq /\ [][NextSeq]_vars


(***************************************************************************)
(* Properties of run, under Spec, and of construction, under SpecCtor.     *)
(***************************************************************************)
\* the order of the float x and the rational n / 10^k: -1, 0, 1
RECURSIVE Pow10Big(_)
Pow10Big(k) == IF k = 0 THEN <<1>> ELSE MulSmall(Pow10Big(k - 1), 10)

CmpDec(x, n, k) ==
    LET xs == [neg |-> x.neg, m |-> MulBig(x.m, Pow10Big(k)), e |-> x.e]
        ns == [neg |-> n < 0, m |-> FromInt(IF n < 0 THEN -n ELSE n), e |-> 0]
        d  == ExactSum(IF xs.m = <<>> THEN Zero ELSE xs,
                       IF ns.m = <<>> THEN Zero ELSE [ns EXCEPT !.neg = ~ns.neg])
    IN  IF d.m = <<>> THEN 0 ELSE IF d.neg THEN -1 ELSE 1

Runs == {i \in DOMAIN done : done[i].op = "run"}

\* 0 <= x <= 1, by the value of x
In01(x) == CmpDec(x, 0, 0) >= 0 /\ CmpDec(x, 1, 0) <= 0

\* D, K, Z in [0, 1] and gamma absent or in [0, 1]
ValidRunArgs(args) ==
    /\ In01(args[1]) /\ In01(args[2]) /\ In01(args[3])
    /\ args[4] = <<>> \/ In01(args[4][1])

BundleFields(r) == {r.D, r.K, r.Z, r.a, r.B, r.M, r.E, r.gamma, r.G}

\* x equals n / 10^k when rounded to k decimal places
RoundsTo(x, n, k) ==
    /\ CmpDec(x, 10 * n - 5, k + 1) >= 0
    /\ CmpDec(x, 10 * n + 5, k + 1) < 0

\* the sum a + B as __init__ computes it, and its distance to 1
WeightSum(a, B) == FAdd(a, B)
OffOne(a, B) == FAbs(FSub(WeightSum(a, B), F1))

\* C1: on a constructed model, run with D, K, Z in [0, 1] and gamma absent or
\* in [0, 1] returns a bundle, and each of its nine fields lies in [0, 1].
C1_RunInUnit ==
    \A i \in Runs :
        ValidRunArgs(done[i].args) =>
            /\ done[i].err = NoError
            /\ Len(done[i].val) = 1
            /\ \A f \in BundleFields(done[i].val[1]) : In01(f)

\* a run with D = K = 1 on weights whose sum exceeds 1, with gamma supplied
C1_Witness ==
    \E i \in Runs :
        /\ ValidRunArgs(done[i].args)
        /\ done[i].args[1] = F1 /\ done[i].args[2] = F1
        /\ done[i].args[4] # <<>>
        /\ FLt(F1, WeightSum(model[1].a, model[1].B))
        /\ done[i].err = NoError

\* C2: on a constructed model, run with any of D, K, Z or a supplied gamma
\* outside [0, 1] raises the range error, the one error of the call, and
\* returns no bundle.
C2_RunRejects ==
    \A i \in Runs :
        ~ValidRunArgs(done[i].args) =>
            /\ done[i].err = ValueRangeError
            /\ done[i].val = <<>>

\* a rejected run whose D and gamma are both outside [0, 1]
C2_Witness ==
    \E i \in Runs :
        /\ ~In01(done[i].args[1])
        /\ done[i].args[4] # <<>> /\ ~In01(done[i].args[4][1])
        /\ In01(done[i].args[3])
        /\ done[i].err = ValueRangeError

\* the three outcomes of EscapeBehaviorModel(a, B)
ThreeOutcomes ==
    LET a == ctor_args[1]
        B == ctor_args[2]
    IN  ctor # "pending" =>
          /\ (~In01(a) \/ ~In01(B)) =>
                ctor = ValueRangeError /\ model = <<>>
          /\ (In01(a) /\ In01(B) /\ FLt(Tolerance, OffOne(a, B))) =>
                ctor = ValueError /\ model = <<>>
          /\ (In01(a) /\ In01(B) /\ ~FLt(Tolerance, OffOne(a, B))) =>
                ctor = NoError /\ model = <<[a |-> a, B |-> B]>>

\* C3 as amended: construction has the three outcomes (range error, constraint
\* error, success with the weights stored as given), and a model exists only
\* with a, B in [0, 1] and a + B within the tolerance 1e-9 of 1.
C3_Construction ==
    /\ ThreeOutcomes
    /\ model # <<>> =>
          /\ In01(model[1].a) /\ In01(model[1].B)
          /\ FLe(OffOne(model[1].a, model[1].B), Tolerance)

\* a model constructed from weights whose sum is not 1
C3_Witness ==
    /\ ctor = NoError /\ model # <<>>
    /\ WeightSum(model[1].a, model[1].B) # F1

\* C3 as stated: the three outcomes, and a model exists only with a, B in
\* [0, 1] and a + B = 1.
C3_Original ==
    /\ ThreeOutcomes
    /\ model # <<>> =>
          /\ In01(model[1].a) /\ In01(model[1].B)
          /\ WeightSum(model[1].a, model[1].B) = F1

\* the finished calls run(D=0.9, K=0.2, Z=0.8, gamma) on weights 0.7, 0.3
ExampleDone(g) ==
    {i \in Runs :
        /\ model = <<[a |-> Dec(7, 1), B |-> Dec(3, 1)]>>
        /\ done[i].args = <<Dec(9, 1), Dec(2, 1), Dec(8, 1), g>>}

\* C4 as amended: with weights 0.7, 0.3, run(0.9, 0.2, 0.8) returns M = 0.69,
\* E and gamma equal to 0.11 and 0.89 when rounded to four decimal places,
\* and G equal to 0.7879 when rounded to four decimal places.
C4_ExampleAuto ==
    \A i \in ExampleDone(<<>>) :
        /\ done[i].err = NoError
        /\ LET r == done[i].val[1] IN
           /\ r.M = Dec(69, 2)
           /\ RoundsTo(r.E, 1100, 4)
           /\ RoundsTo(r.gamma, 8900, 4)
           /\ RoundsTo(r.G, 7879, 4)

C4_Witness == \E i \in ExampleDone(<<>>) : done[i].err = NoError

\* C4 as stated: M = 0.69, E = 0.11, gamma = 0.89, and G equal to 0.7881 when
\* rounded to four decimal places.
C4_Original ==
    \A i \in ExampleDone(<<>>) :
        /\ done[i].err = NoError
        /\ LET r == done[i].val[1] IN
           /\ r.M = Dec(69, 2)
           /\ r.E = Dec(11, 2)
           /\ r.gamma = Dec(89, 2)
           /\ RoundsTo(r.G, 7881, 4)

\* C5 as amended: with weights 0.7, 0.3, run(0.9, 0.2, 0.8, gamma=0.4) returns
\* M = 0.69, E equal to 0.11 when rounded to four decimal places,
\* gamma = 0.645, and G equal to 0.76095 when rounded to five decimal places.
C5_ExampleInput ==
    \A i \in ExampleDone(<<Dec(4, 1)>>) :
        /\ done[i].err = NoError
        /\ LET r == done[i].val[1] IN
           /\ r.M = Dec(69, 2)
           /\ RoundsTo(r.E, 1100, 4)
           /\ r.gamma = Dec(645, 3)
           /\ RoundsTo(r.G, 76095, 5)

C5_Witness == \E i \in ExampleDone(<<Dec(4, 1)>>) : done[i].err = NoError

\* C5 as stated: M = 0.69, E = 0.11, gamma = 0.645, and G equal to 0.76905
\* when rounded to five decimal places.
C5_Original ==
    \A i \in ExampleDone(<<Dec(4, 1)>>) :
        /\ done[i].err = NoError
        /\ LET r == done[i].val[1] IN
           /\ r.M = Dec(69, 2)
           /\ r.E = Dec(11, 2)
           /\ r.gamma = Dec(645, 3)
           /\ RoundsTo(r.G, 76905, 5)

\* C10: in the bundle of every successful run, G lies between M and Z
\* (min(M, Z) <= G <= max(M, Z)), G is no farther from Z than M was
\* (|G - Z| <= E), and G = M whenever M = Z.
C10_Between ==
    \A i \in Runs :
        done[i].err = NoError =>
            LET r  == done[i].val[1]
                lo == IF FLt(r.Z, r.M) THEN r.Z ELSE r.M
                hi == IF FLt(r.Z, r.M) THEN r.M ELSE r.Z
                gz == ExactSum(r.G, FNeg(r.Z))
            IN  /\ FLe(lo, r.G) /\ FLe(r.G, hi)
                /\ FLe([gz EXCEPT !.neg = FALSE], r.E)
                /\ r.M = r.Z => r.G = r.M

(***************************************************************************)
(* dynamic_gamma, under SpecGamma.                                         *)
(***************************************************************************)
\* the pairs of finished calls of op, both returned, the first made first
Pairs(op) ==
    {p \in (DOMAIN done) \X (DOMAIN done) :
        /\ p[1] < p[2]
        /\ done[p[1]].op = op /\ done[p[2]].op = op
        /\ done[p[1]].err = NoError /\ done[p[2]].err = NoError}

\* C6 as amended: for E1 <= E2 in [0, 1] and the same gamma_in (absent or in
\* [0, 1]), dynamic_gamma(E1, gamma_in) >= dynamic_gamma(E2, gamma_in): gamma,
\* the weight on Z in calibrate, is non-increasing in the deviation E.
C6_GammaFalls ==
    \A p \in Pairs("dynamic_gamma") :
        LET c1 == done[p[1]]
            c2 == done[p[2]]
        IN  (c1.args[2] = c2.args[2] /\ FLe(c1.args[1], c2.args[1])) =>
                FLe(c2.val[1], c1.val[1])

\* E1 < E2 with a supplied gamma_in, and the second gamma strictly smaller
C6_Witness ==
    \E p \in Pairs("dynamic_gamma") :
        LET c1 == done[p[1]]
            c2 == done[p[2]]
        IN  /\ c1.args[2] = c2.args[2] /\ c1.args[2] # <<>>
            /\ FLt(c1.args[1], c2.args[1])
            /\ FLt(c2.val[1], c1.val[1])

\* C6 as stated: for E1 <= E2 and the same gamma_in,
\* dynamic_gamma(E1, gamma_in) <= dynamic_gamma(E2, gamma_in).
C6_Original ==
    \A p \in Pairs("dynamic_gamma") :
        LET c1 == done[p[1]]
            c2 == done[p[2]]
        IN  (c1.args[2] = c2.args[2] /\ FLe(c1.args[1], c2.args[1])) =>
                FLe(c1.val[1], c2.val[1])

(***************************************************************************)
(* calibrate, under SpecCal.                                               *)
(***************************************************************************)
\* C7: for M, Z in [0, 1], calibrate(M, Z, 0) returns exactly M and
\* calibrate(M, Z, 1) returns exactly Z.
C7_Endpoints ==
    \A i \in DOMAIN done :
        LET c == done[i] IN
        (c.op = "calibrate" /\ In01(c.args[1]) /\ In01(c.args[2])) =>
            /\ c.args[3] = F0 => (c.err = NoError /\ c.val = <<c.args[1]>>)
            /\ c.args[3] = F1 => (c.err = NoError /\ c.val = <<c.args[2]>>)

\* calibrate(0.69, Z, 1) with Z neither 0.69 nor 0 nor 1
C7_Witness ==
    \E i \in DOMAIN done :
        LET c == done[i] IN
        /\ c.op = "calibrate" /\ c.args[3] = F1 /\ c.args[1] = Dec(69, 2)
        /\ FLt(F0, c.args[2]) /\ FLt(c.args[2], F1) /\ c.args[2] # c.args[1]
        /\ c.val = <<c.args[2]>>

(***************************************************************************)
(* fuse, under SpecFuse.                                                   *)
(***************************************************************************)
FuseMonotone ==
    \A p \in Pairs("fuse") :
        LET c1 == done[p[1]]
            c2 == done[p[2]]
        IN  (FLe(c1.args[1], c2.args[1]) /\ FLe(c1.args[2], c2.args[2])) =>
                FLe(c1.val[1], c2.val[1])

FuseDone == {i \in DOMAIN done : done[i].op = "fuse" /\ done[i].err = NoError}

WeightsKept ==
    /\ ctor = NoError => model = <<[a |-> ctor_args[1], B |-> ctor_args[2]]>>
    /\ ctor \notin {NoError, "pending"} => model = <<>>

SameRunSameBundle ==
    \A i \in Runs : \A j \in Runs :
        done[i].args = done[j].args =>
            (done[i].err = done[j].err /\ done[i].val = done[j].val)

\* C9 as amended: after construction no sequence of calls of fuse, deviation,
\* dynamic_gamma, calibrate or run, returning or raising, changes a and B:
\* they stay the construction arguments, a + B stays within 1e-9 of 1, and
\* two runs with the same arguments return equal bundles.
C9_WeightsFrame ==
    /\ WeightsKept
    /\ model # <<>> => FLe(OffOne(model[1].a, model[1].B), Tolerance)
    /\ SameRunSameBundle

\* two successful runs with the same arguments around a call that raised
C9_Witness ==
    /\ Len(done) >= 3
    /\ done[1].op = "run" /\ done[1].err = NoError
    /\ done[2].err = ValueRangeError
    /\ done[3].op = "run" /\ done[3].args = done[1].args
    /\ done[3].val = done[1].val

\* C9 as stated: the weights stay the construction arguments, a + B = 1 in
\* every reachable state, and two runs with the same arguments return equal
\* bundles.
C9_Original ==
    /\ WeightsKept
    /\ model # <<>> => WeightSum(model[1].a, model[1].B) = F1
    /\ SameRunSameBundle

=============================================================================
